---- MODULE Spec2Model ----
(***************************************************************************)
(* CodeFlow IDE (src/unnamed/part_001, the Page component): the workspace  *)
(* list with each workspace's file hierarchy and document collections, the *)
(* explorer's selection and move state, the editor's tabs, the terminal,   *)
(* the preview, the window.db SDK, the BroadcastChannel sync and the       *)
(* debounced persistence, as a state machine of the UI's event handlers.   *)
(* A handler runs together with the render it causes and that render's     *)
(* effects.                                                                *)
(*                                                                         *)
(* Ids are the strings uid() returns; they are modelled as the positive    *)
(* integers a counter hands out (fresh, never reused).  Null stands for    *)
(* both null (parentId, moveTarget) and "" (activeFileId).                 *)
(* Project fields no modelled handler reads (type, collaborators, apiKeys, *)
(* scene, vcs) are left out of the project record.                         *)
(***************************************************************************)
EXTENDS Integers, Sequences, FiniteSets, TLC

VARIABLES
    auth,            \* "guest" | "user"                       (line 167)
    projects,        \* Project[]                              (line 168)
    activeProjectId, \* id of the active workspace             (line 169)
    activeFileId,    \* id of the file in the editor, or Null  (line 170)
    openTabs,        \* ids of the open editor tabs            (line 171)
    selectedIds,     \* ids ticked in the explorer             (line 174)
    moveTarget,      \* folder chosen by "Move selected"       (line 175)
    nextId,          \* the next value uid() returns
    handle,          \* a db.collection(name) object a script holds, or NoHandle
    ret,             \* what the last SDK call returned
    inbox,           \* sync messages delivered to this tab, not yet handled
    posted,          \* the messages this tab posted on "codeflow-collab"
    logs,            \* the terminal's entries                 (line 186)
    saveTimer,       \* saveTimer.current while its timeout is pending, else NoTimer (line 199)
    timers,          \* the page's pending timeouts, each as the blob it will write
    stored,          \* localStorage["codeflow-v1"], or NoBlob
    uploads,         \* the file.text() reads that have not completed (line 535)
    last,            \* the handler that ran last, with its arguments
    steps            \* the number of handlers that have run

vars == <<auth, projects, activeProjectId, activeFileId, openTabs, selectedIds,
          moveTarget, nextId, handle, ret, inbox, posted, logs, saveTimer, timers,
          stored, uploads, last, steps>>

Null == 0

(* Bounds of the model. *)
MaxId == 20
MaxSelected == 2
MaxTreeSteps == 5

(* A session of at most n handler runs. *)
Budget(n) == steps < n /\ steps' = steps + 1

(***************************************************************************)
(* Sequence helpers (Array.prototype.map / filter / find / flatMap).       *)
(***************************************************************************)
Range(s) == { s[i] : i \in DOMAIN s }

RECURSIVE FlatSeq(_)
FlatSeq(ss) == IF ss = <<>> THEN <<>> ELSE Head(ss) \o FlatSeq(Tail(ss))

Map(s, op(_)) == [i \in DOMAIN s |-> op(s[i])]

Filter(s, test(_)) == SelectSeq(s, test)

(* files.find(test)?.id ?? null *)
FindId(s, test(_)) ==
    LET hits == Filter(s, test) IN IF hits = <<>> THEN Null ELSE hits[1].id

Ids(files) == { files[i].id : i \in DOMAIN files }

(***************************************************************************)
(* uid(), makeDefaultFiles(), makeProject()                                *)
(***************************************************************************)
FileItem(id, name, kind, content, parentId) ==
    [id |-> id, name |-> name, kind |-> kind, content |-> content, parentId |-> parentId]

(* makeDefaultFiles with uid() returning u, u+1, ... : seven ids. *)
makeDefaultFiles(u) ==
    << FileItem(u, "src", "folder", "", Null),
       FileItem(u + 1, "CodeSpace.cs", "file", "// Core scripts", u),
       FileItem(u + 2, "React Hooks.rh", "file", "// Hooks registry", u),
       FileItem(u + 3, "Server Utilities.su", "file", "// Server utilities", u),
       FileItem(u + 4, "index.html", "file", "<h1>CodeFlow IDE v1</h1>", Null),
       FileItem(u + 5, "styles.css", "file",
                "body{font-family:Inter,sans-serif;background:#111827;color:#e5e7eb}", Null),
       FileItem(u + 6, "main.js", "file", "console.log('CodeFlow v1 loaded')", Null) >>

DefaultCollections == [n \in {"3D Models", "appData"} |-> <<>>]

(* makeProject(name) with uid() returning u, u+1, ... : the project id, then the files. *)
makeProject(u, name) ==
    [id |-> u, name |-> name, files |-> makeDefaultFiles(u + 1),
     connected |-> {}, collections |-> DefaultCollections]

(***************************************************************************)
(* descendants(files, id): the recursion of lines 161-164.  On a hierarchy *)
(* with a parent cycle through id the JavaScript recursion never returns   *)
(* (it ends in a RangeError: call stack exceeded); the recursion here      *)
(* carries the remaining depth and yields Overflow in that case.  Distinct *)
(* ids make Len(files) + 1 levels enough for every hierarchy without a     *)
(* cycle.                                                                  *)
(***************************************************************************)
Overflow == -1

RECURSIVE descendantsUpTo(_, _, _)
descendantsUpTo(files, id, depth) ==
    IF depth = 0 THEN <<Overflow>>
    ELSE LET kids == Map(Filter(files, LAMBDA f : f.parentId = id), LAMBDA f : f.id)
         IN  FlatSeq(Map(kids, LAMBDA k : <<k>> \o descendantsUpTo(files, k, depth - 1)))

descendants(files, id) == descendantsUpTo(files, id, Len(files) + 1)

(* The call does not return. *)
Diverges(files, id) == Overflow \in Range(descendants(files, id))

(***************************************************************************)
(* project, activeFile, patchProject (lines 234-239)                       *)
(***************************************************************************)
project ==
    LET hits == Filter(projects, LAMBDA p : p.id = activeProjectId)
    IN  IF hits = <<>> THEN projects[1] ELSE hits[1]

activeFile ==
    LET hits == Filter(project.files, LAMBDA f : f.id = activeFileId /\ f.kind = "file")
    IN  IF hits = <<>> THEN Null ELSE hits[1].id

(* setProjects(prev => prev.map(p => p.id === pid ? cb(p) : p)), pid being the
   project.id of the render that created the closure. *)
patchProjectOf(pid, cb(_)) ==
    projects' = [i \in DOMAIN projects |->
                    IF projects[i].id = pid THEN cb(projects[i]) ELSE projects[i]]

patchProject(cb(_)) == patchProjectOf(project.id, cb)

(* addLog (line 266).  An entry's id (a uid() no handler reads) is left out. *)
addLog(entries, level, message) == Append(entries, [level |-> level, message |-> message])

(***************************************************************************)
(* Debounced persistence (lines 214-221).  The effect's dependencies are   *)
(* auth, projects and activeProjectId, compared by identity: it runs again *)
(* after every handler that sets auth or activeProjectId to another value  *)
(* or calls setProjects (prev.map / filter / spread always build a new     *)
(* array).  Its cleanup clears the timer of the previous run; the new run  *)
(* sets a timer only when auth = "user".  The timer's callback holds the   *)
(* auth, projects and activeProjectId of the render that set it.           *)
(***************************************************************************)
NoTimer == [set |-> FALSE]
NoBlob == [has |-> FALSE]

(* { auth, projects, activeProjectId } *)
snapshot(a, ps, pid) == [has |-> TRUE, auth |-> a, projects |-> ps, activeProjectId |-> pid]

(* The handlers that call setProjects. *)
setsProjects(l) ==
    \/ l.op \in {"newFile", "newFolder", "renameFile", "moveFile", "dropIntoFolder", "connect",
                 "syncConnected", "addDoc", "updateDoc", "deleteDoc", "createWorkspace",
                 "renameWorkspace", "edit", "receive", "upload"}
    \/ l.op = "deleteWorkspace" /\ ~l.refused
    \/ l.op \in {"deleteFile", "bulkDelete"} /\ ~l.threw
    \/ l.op = "runTerminal" /\ l.cmd = "!fix code" /\ l.file # Null

(* Mutant of cleared: the timeout is not cleared. *)
notCleared(pending, ref) == pending

(* clearTimeout(saveTimer.current) *)
cleared(pending, ref) == IF ref = NoTimer THEN pending ELSE pending \ {ref.blob}

(* Mutant of saveEffect: a leading-edge debounce, which keeps the timeout that
   is pending and sets one only when none is. *)
saveEffectLeading ==
    /\ IF auth' = auth /\ activeProjectId' = activeProjectId /\ ~setsProjects(last')
       THEN UNCHANGED <<saveTimer, timers>>
       ELSE IF auth' # "user"
            THEN /\ timers' = cleared(timers, saveTimer)
                 /\ saveTimer' = NoTimer
            ELSE IF saveTimer # NoTimer THEN UNCHANGED <<saveTimer, timers>>
            ELSE LET blob == snapshot(auth', projects', activeProjectId')
                 IN  /\ timers' = timers \cup {blob}
                     /\ saveTimer' = [set |-> TRUE, blob |-> blob]
    /\ stored' = stored

(* The effect after a handler: the cleanup of the previous run (line 220),
   then the new run (lines 215-219). *)
saveEffect ==
    /\ IF auth' = auth /\ activeProjectId' = activeProjectId /\ ~setsProjects(last')
       THEN UNCHANGED <<saveTimer, timers>>
       ELSE IF auth' # "user"
            THEN /\ timers' = cleared(timers, saveTimer)
                 /\ saveTimer' = NoTimer
            ELSE LET blob == snapshot(auth', projects', activeProjectId')
                 IN  /\ timers' = cleared(timers, saveTimer) \cup {blob}
                     /\ saveTimer' = [set |-> TRUE, blob |-> blob]
    /\ stored' = stored

(* One handler run of a session of at most n, followed by the effects of the
   render it causes. *)
Handler(n, A) == Budget(n) /\ A /\ saveEffect

(***************************************************************************)
(* The explorer lists listTree(null) (lines 259-264, 444): the nodes       *)
(* reachable from the root through folders.  With an empty search term     *)
(* every such node is listed; only a listed node has a checkbox and a      *)
(* context menu.                                                           *)
(***************************************************************************)
RECURSIVE listed(_, _)
listed(files, parentId) ==
    UNION { {f.id} \cup (IF f.kind = "folder" THEN listed(files, f.id) ELSE {})
            : f \in { g \in Range(files) : g.parentId = parentId } }

(***************************************************************************)
(* Strings.  A name or a content is a TLA+ string; s[i] is written         *)
(* charAt(s, i).                                                            *)
(***************************************************************************)
charAt(s, i) == SubSeq(s, i, i)

Upper == "ABCDEFGHIJKLMNOPQRSTUVWXYZ"
Lower == "abcdefghijklmnopqrstuvwxyz"

(* The lower-case letter of each upper-case letter. *)
lowerOf == [c \in { charAt(Upper, i) : i \in 1..Len(Upper) } |->
               charAt(Lower, CHOOSE i \in 1..Len(Upper) : charAt(Upper, i) = c)]

RECURSIVE lowerFrom(_, _)
lowerFrom(s, i) ==
    IF i > Len(s) THEN ""
    ELSE LET c == charAt(s, i)
         IN  (IF c \in DOMAIN lowerOf THEN lowerOf[c] ELSE c) \o lowerFrom(s, i + 1)

toLowerCase(s) == lowerFrom(s, 1)

startsWith(s, t) == Len(t) <= Len(s) /\ SubSeq(s, 1, Len(t)) = t
endsWith(s, t) == Len(t) <= Len(s) /\ SubSeq(s, Len(s) - Len(t) + 1, Len(s)) = t
includes(s, t) == \E i \in 0..(Len(s) - Len(t)) : SubSeq(s, i + 1, i + Len(t)) = t

(* String.prototype.replaceAll(from, to), from non-empty: the occurrences
   are taken from the left and do not overlap. *)
RECURSIVE replaceAll(_, _, _)
replaceAll(s, from, to) ==
    IF s = "" THEN ""
    ELSE IF startsWith(s, from)
         THEN to \o replaceAll(SubSeq(s, Len(from) + 1, Len(s)), from, to)
         ELSE charAt(s, 1) \o replaceAll(SubSeq(s, 2, Len(s)), from, to)

(* String.prototype.localeCompare with no locale argument: the root
   collation.  Characters are compared first without regard to case, in the
   order blank, punctuation, digits, letters; strings that are equal so far
   are ordered with the lower-case letter first at the first difference of
   case.  Collation lists the characters the names of the model are made of. *)
Collation == " -.0123456789abcdefghijklmnopqrstuvwxyz"

(* The place of each character in Collation. *)
rankOf == [c \in { charAt(Collation, i) : i \in 1..Len(Collation) } |->
              CHOOSE i \in 1..Len(Collation) : charAt(Collation, i) = c]

RECURSIVE comparePrimary(_, _, _)
comparePrimary(a, b, i) ==
    IF i > Len(a) THEN (IF i > Len(b) THEN 0 ELSE -1)
    ELSE IF i > Len(b) THEN 1
    ELSE IF rankOf[charAt(a, i)] < rankOf[charAt(b, i)] THEN -1
    ELSE IF rankOf[charAt(a, i)] > rankOf[charAt(b, i)] THEN 1
    ELSE comparePrimary(a, b, i + 1)

RECURSIVE compareCase(_, _, _)
compareCase(a, b, i) ==
    IF i > Len(a) \/ i > Len(b) THEN 0
    ELSE IF charAt(a, i) \notin DOMAIN lowerOf /\ charAt(b, i) \in DOMAIN lowerOf THEN -1
    ELSE IF charAt(a, i) \in DOMAIN lowerOf /\ charAt(b, i) \notin DOMAIN lowerOf THEN 1
    ELSE compareCase(a, b, i + 1)

localeCompare(a, b) ==
    IF a = b THEN 0
    ELSE IF comparePrimary(toLowerCase(a), toLowerCase(b), 1) # 0
         THEN comparePrimary(toLowerCase(a), toLowerCase(b), 1)
         ELSE compareCase(a, b, 1)

(***************************************************************************)
(* filtered and listTree (lines 259-264).  The label of an entry (its      *)
(* indentation, icon and name) is left out: an entry is the node.          *)
(***************************************************************************)
(* Mutant of compareNodes: the kind is not compared. *)
compareNodesByNameOnly(a, b) == localeCompare(a.name, b.name)

(* The comparator of line 263. *)
compareNodes(a, b) ==
    LET byKind == (IF a.kind = "file" THEN 1 ELSE 0) - (IF b.kind = "file" THEN 1 ELSE 0)
    IN  IF byKind # 0 THEN byKind ELSE localeCompare(a.name, b.name)

(* Array.prototype.sort is stable: x goes after every element that does not
   compare above it. *)
RECURSIVE insertSorted(_, _)
insertSorted(sorted, x) ==
    IF sorted = <<>> THEN <<x>>
    ELSE IF compareNodes(Head(sorted), x) > 0 THEN <<x>> \o sorted
    ELSE <<Head(sorted)>> \o insertSorted(Tail(sorted), x)

RECURSIVE sortNodes(_)
sortNodes(nodes) ==
    IF nodes = <<>> THEN <<>>
    ELSE insertSorted(sortNodes(SubSeq(nodes, 1, Len(nodes) - 1)), nodes[Len(nodes)])

filtered(files, search) ==
    Filter(files, LAMBDA f : includes(toLowerCase(f.name), toLowerCase(search)))

RECURSIVE listTree(_, _, _)
listTree(files, search, parentId) ==
    LET level == sortNodes(Filter(filtered(files, search), LAMBDA f : f.parentId = parentId))
    IN  FlatSeq(Map(level, LAMBDA f :
            <<f>> \o (IF f.kind = "folder" THEN listTree(files, search, f.id) ELSE <<>>)))

(***************************************************************************)
(* preview (lines 252-257)                                                 *)
(***************************************************************************)
(* project.files.find((f) => f.name.endsWith(ext))?.content ?? "" *)
previewPart(files, ext) ==
    LET hits == Filter(files, LAMBDA f : endsWith(f.name, ext))
    IN  IF hits = <<>> THEN "" ELSE hits[1].content

(* The template of line 256. *)
previewDocument(html, css, js) ==
    "<!doctype html><html><head><style>" \o css \o "</style></head><body>" \o html
        \o "<script>" \o js \o "</script></body></html>"

preview ==
    previewDocument(previewPart(project.files, ".html"), previewPart(project.files, ".css"),
                    previewPart(project.files, ".js"))

(***************************************************************************)
(* Explorer handlers.  Each sets last to its name and arguments.           *)
(***************************************************************************)
treeRest == <<auth, handle, ret, inbox, posted, logs, uploads>>

(* "New file" (line 467): id: uid(), name: `new-${uid()}.js`. *)
NewFile ==
    /\ nextId + 1 <= MaxId
    /\ patchProject(LAMBDA p : [p EXCEPT !.files = Append(@,
           FileItem(nextId, "new-" \o ToString(nextId + 1) \o ".js", "file", "", Null))])
    /\ nextId' = nextId + 2
    /\ last' = [op |-> "newFile", id |-> nextId]
    /\ UNCHANGED <<activeProjectId, activeFileId, openTabs, selectedIds, moveTarget>>
    /\ UNCHANGED treeRest

(* "New folder" (line 468). *)
NewFolder ==
    /\ nextId + 1 <= MaxId
    /\ patchProject(LAMBDA p : [p EXCEPT !.files = Append(@,
           FileItem(nextId, "folder-" \o ToString(nextId + 1), "folder", "", Null))])
    /\ nextId' = nextId + 2
    /\ last' = [op |-> "newFolder", id |-> nextId]
    /\ UNCHANGED <<activeProjectId, activeFileId, openTabs, selectedIds, moveTarget>>
    /\ UNCHANGED treeRest

(* renameFile (lines 294-300); next is what the prompt returned, non-empty. *)
renameFile(id, next) ==
    /\ id \in listed(project.files, Null)
    /\ patchProject(LAMBDA p : [p EXCEPT !.files =
           Map(@, LAMBDA f : IF f.id = id THEN [f EXCEPT !.name = next] ELSE f)])
    /\ last' = [op |-> "renameFile", id |-> id]
    /\ UNCHANGED <<activeProjectId, activeFileId, openTabs, selectedIds, moveTarget, nextId>>
    /\ UNCHANGED treeRest

(* deleteFile (lines 302-307).  When descendants does not return, the handler
   ends in the RangeError before any setter is called. *)
deleteFile(id) ==
    /\ id \in listed(project.files, Null)
    /\ IF Diverges(project.files, id)
       THEN /\ last' = [op |-> "deleteFile", id |-> id, threw |-> TRUE]
            /\ UNCHANGED <<projects, openTabs, activeFileId>>
       ELSE LET toDelete == {id} \cup Range(descendants(project.files, id))
            IN  /\ patchProject(LAMBDA p : [p EXCEPT !.files =
                       Filter(@, LAMBDA f : f.id \notin toDelete)])
                /\ openTabs' = Filter(openTabs, LAMBDA x : x \notin toDelete)
                /\ activeFileId' = IF activeFileId \in toDelete THEN Null ELSE activeFileId
                /\ last' = [op |-> "deleteFile", id |-> id, threw |-> FALSE]
    /\ UNCHANGED <<activeProjectId, selectedIds, moveTarget, nextId>>
    /\ UNCHANGED treeRest

(* moveFile (lines 309-312): the destination is the first folder other than id. *)
moveFile(id) ==
    /\ id \in listed(project.files, Null)
    /\ LET target == FindId(project.files, LAMBDA f : f.kind = "folder" /\ f.id # id)
       IN  /\ patchProject(LAMBDA p : [p EXCEPT !.files =
                  Map(@, LAMBDA f : IF f.id = id THEN [f EXCEPT !.parentId = target] ELSE f)])
           /\ last' = [op |-> "moveFile", id |-> id, target |-> target]
    /\ UNCHANGED <<activeProjectId, activeFileId, openTabs, selectedIds, moveTarget, nextId>>
    /\ UNCHANGED treeRest

(* The checkbox of a listed node (line 446).  selectedIds is used only through
   includes / filter / new Set, so its order is not kept. *)
ToggleSelect(id) ==
    /\ id \in listed(project.files, Null)
    /\ id \notin selectedIds => Cardinality(selectedIds) < MaxSelected
    /\ selectedIds' = IF id \in selectedIds THEN selectedIds \ {id} ELSE selectedIds \cup {id}
    /\ last' = [op |-> "toggleSelect", id |-> id]
    /\ UNCHANGED <<projects, activeProjectId, activeFileId, openTabs, moveTarget, nextId>>
    /\ UNCHANGED treeRest

(* "Move selected" (line 469): the first folder of the active workspace. *)
MoveSelected ==
    /\ moveTarget' = FindId(project.files, LAMBDA f : f.kind = "folder")
    /\ last' = [op |-> "moveSelected"]
    /\ UNCHANGED <<projects, activeProjectId, activeFileId, openTabs, selectedIds, nextId>>
    /\ UNCHANGED treeRest

(* "Drop into folder" (lines 477-481), rendered while moveTarget is set. *)
DropIntoFolder ==
    /\ moveTarget # Null
    /\ patchProject(LAMBDA p : [p EXCEPT !.files =
           Map(@, LAMBDA f : IF f.id \in selectedIds THEN [f EXCEPT !.parentId = moveTarget] ELSE f)])
    /\ selectedIds' = {}
    /\ moveTarget' = Null
    /\ last' = [op |-> "dropIntoFolder", ids |-> selectedIds, target |-> moveTarget]
    /\ UNCHANGED <<activeProjectId, activeFileId, openTabs, nextId>>
    /\ UNCHANGED treeRest

(* "Bulk delete" (lines 470-474). *)
BulkDelete ==
    /\ IF \E id \in selectedIds : Diverges(project.files, id)
       THEN /\ last' = [op |-> "bulkDelete", ids |-> selectedIds, threw |-> TRUE]
            /\ UNCHANGED <<projects, selectedIds>>
       ELSE LET all == UNION { {id} \cup Range(descendants(project.files, id)) : id \in selectedIds }
            IN  /\ patchProject(LAMBDA p : [p EXCEPT !.files =
                       Filter(@, LAMBDA f : f.id \notin all)])
                /\ selectedIds' = {}
                /\ last' = [op |-> "bulkDelete", ids |-> selectedIds, threw |-> FALSE]
    /\ UNCHANGED <<activeProjectId, activeFileId, openTabs, moveTarget, nextId>>
    /\ UNCHANGED treeRest

(* A workspace button (line 426). *)
SwitchWorkspace(pid) ==
    /\ pid \in { projects[i].id : i \in DOMAIN projects }
    /\ pid # project.id
    /\ activeProjectId' = pid
    /\ last' = [op |-> "switchWorkspace", id |-> pid]
    /\ UNCHANGED <<projects, activeFileId, openTabs, selectedIds, moveTarget, nextId>>
    /\ UNCHANGED treeRest

(* "Connect" (lines 433-437): the first other workspace. *)
Connect ==
    /\ LET target == FindId(projects, LAMBDA p : p.id # project.id)
       IN  /\ target # Null
           /\ patchProject(LAMBDA p : [p EXCEPT !.connected = @ \cup {target}])
    /\ last' = [op |-> "connect"]
    /\ UNCHANGED <<activeProjectId, activeFileId, openTabs, selectedIds, moveTarget, nextId>>
    /\ UNCHANGED treeRest

(* syncConnected (lines 314-319): the root nodes and the children of the first
   node named "src" are appended to every connected workspace, each under a new
   id and with the parentId it has in the source workspace. *)
sourceFiles ==
    LET src == FindId(project.files, LAMBDA x : x.name = "src")
    IN  Filter(project.files, LAMBDA f : f.parentId = Null \/ (src # Null /\ f.parentId = src))

RECURSIVE withNewIds(_, _)
withNewIds(fs, u) ==
    IF fs = <<>> THEN <<>>
    ELSE <<[Head(fs) EXCEPT !.id = u]>> \o withNewIds(Tail(fs), u + 1)

(* prev.map runs over the workspaces in order; each connected one draws its
   own new ids. *)
RECURSIVE syncInto(_, _, _, _)
syncInto(ps, connected, fs, u) ==
    IF ps = <<>> THEN <<>>
    ELSE IF Head(ps).id \in connected
         THEN <<[Head(ps) EXCEPT !.files = @ \o withNewIds(fs, u)]>>
                  \o syncInto(Tail(ps), connected, fs, u + Len(fs))
         ELSE <<Head(ps)>> \o syncInto(Tail(ps), connected, fs, u)

syncConnected ==
    /\ project.connected # {}
    /\ LET n == Cardinality({ i \in DOMAIN projects : projects[i].id \in project.connected })
       IN  /\ nextId + n * Len(sourceFiles) - 1 <= MaxId
           /\ nextId' = nextId + n * Len(sourceFiles)
    /\ projects' = syncInto(projects, project.connected, sourceFiles, nextId)
    /\ logs' = addLog(logs, "success", "Synced resources to connected workspaces.")
    /\ last' = [op |-> "syncConnected"]
    /\ UNCHANGED <<activeProjectId, activeFileId, openTabs, selectedIds, moveTarget>>
    /\ UNCHANGED <<auth, handle, ret, inbox, posted, uploads>>

(***************************************************************************)
(* window.db (lines 241-250).  The effect rebuilds window.db on every      *)
(* change of project, so db.collection(name) always returns an object      *)
(* whose four closures hold the project of the current render: its         *)
(* collections (getDocs) and, through patchProject, its id.  A script may  *)
(* keep that object and call it later.                                     *)
(***************************************************************************)
(* {...a, ...b} *)
Merge(a, b) == [k \in DOMAIN a \cup DOMAIN b |-> IF k \in DOMAIN b THEN b[k] ELSE a[k]]

(* collections[name] ?? [] *)
docsOf(collections, name) ==
    IF name \in DOMAIN collections THEN collections[name] ELSE <<>>

(* { ...p.collections, [name]: docs } *)
withDocs(collections, name, docs) ==
    [n \in DOMAIN collections \cup {name} |-> IF n = name THEN docs ELSE collections[n]]

(* addDoc's record: { id: uid(), name: String(data.name ?? "doc"), ...data } *)
newDoc(u, data) ==
    Merge([id |-> u, name |-> IF "name" \in DOMAIN data THEN data.name ELSE "doc"], data)

docsAdded(docs, u, data) == Append(docs, newDoc(u, data))

(* Mutant of docsUpdated: the id test is lost, every record is patched. *)
docsUpdatedAny(docs, id, data) == Map(docs, LAMBDA d : Merge(d, data))

docsUpdated(docs, id, data) == Map(docs, LAMBDA d : IF d.id = id THEN Merge(d, data) ELSE d)

docsDeleted(docs, id) == Filter(docs, LAMBDA d : d.id # id)

Undefined == [kind |-> "undefined"]

NoHandle == [name |-> "", pid |-> Null, snapshot |-> <<>>]

sdkRest == <<auth, activeProjectId, activeFileId, openTabs, selectedIds, moveTarget, inbox, posted,
            logs, uploads>>

(* window.db.collection(name) *)
dbCollection(name) ==
    /\ handle' = [name |-> name, pid |-> project.id, snapshot |-> project.collections]
    /\ last' = [op |-> "collection", name |-> name]
    /\ UNCHANGED <<projects, nextId, ret>>
    /\ UNCHANGED sdkRest

(* getDocs (line 244) *)
getDocs ==
    /\ handle # NoHandle
    /\ ret' = [kind |-> "docs", docs |-> docsOf(handle.snapshot, handle.name)]
    /\ last' = [op |-> "getDocs", name |-> handle.name, pid |-> handle.pid]
    /\ UNCHANGED <<projects, nextId, handle>>
    /\ UNCHANGED sdkRest

(* addDoc (line 245): the value of the call is what patchProject returns.
   uid() runs inside the updater, once for the workspace it matches. *)
addDoc(data) ==
    /\ handle # NoHandle
    /\ patchProjectOf(handle.pid, LAMBDA p : [p EXCEPT !.collections =
           withDocs(@, handle.name, docsAdded(docsOf(@, handle.name), nextId, data))])
    /\ nextId' = IF \E i \in DOMAIN projects : projects[i].id = handle.pid
                 THEN nextId + 1 ELSE nextId
    /\ ret' = Undefined
    /\ last' = [op |-> "addDoc", name |-> handle.name, pid |-> handle.pid, data |-> data]
    /\ UNCHANGED handle
    /\ UNCHANGED sdkRest

(* updateDoc (line 246) *)
updateDoc(id, data) ==
    /\ handle # NoHandle
    /\ patchProjectOf(handle.pid, LAMBDA p : [p EXCEPT !.collections =
           withDocs(@, handle.name, docsUpdated(docsOf(@, handle.name), id, data))])
    /\ ret' = Undefined
    /\ last' = [op |-> "updateDoc", name |-> handle.name, pid |-> handle.pid, id |-> id]
    /\ UNCHANGED <<nextId, handle>>
    /\ UNCHANGED sdkRest

(* deleteDoc (line 247) *)
deleteDoc(id) ==
    /\ handle # NoHandle
    /\ patchProjectOf(handle.pid, LAMBDA p : [p EXCEPT !.collections =
           withDocs(@, handle.name, docsDeleted(docsOf(@, handle.name), id))])
    /\ ret' = Undefined
    /\ last' = [op |-> "deleteDoc", name |-> handle.name, pid |-> handle.pid, id |-> id]
    /\ UNCHANGED <<nextId, handle>>
    /\ UNCHANGED sdkRest

(***************************************************************************)
(* Workspace create and delete (lines 388-399, 416-421).                   *)
(***************************************************************************)
wsRest == <<auth, activeFileId, openTabs, selectedIds, moveTarget, handle, ret, inbox, posted,
           logs, uploads>>

(* makeProject draws eight ids: the project's and its seven files'. *)
CreateWorkspace ==
    /\ nextId + 7 <= MaxId
    /\ LET p == makeProject(nextId, "Workspace " \o ToString(Len(projects) + 1))
       IN  /\ projects' = Append(projects, p)
           /\ activeProjectId' = p.id
    /\ nextId' = nextId + 8
    /\ last' = [op |-> "createWorkspace", id |-> nextId]
    /\ UNCHANGED wsRest

(* Mutant of DeleteWorkspace: activeProjectId is left as it is. *)
DeleteWorkspaceKeepsActive ==
    /\ IF Len(projects) = 1
       THEN /\ last' = [op |-> "deleteWorkspace", id |-> project.id, refused |-> TRUE]
            /\ UNCHANGED <<projects, activeProjectId>>
       ELSE /\ projects' = Filter(projects, LAMBDA p : p.id # project.id)
            /\ last' = [op |-> "deleteWorkspace", id |-> project.id, refused |-> FALSE]
            /\ UNCHANGED activeProjectId
    /\ UNCHANGED nextId
    /\ UNCHANGED wsRest

(* Workspace "Delete" (lines 416-421): with one workspace the handler returns
   at once. *)
DeleteWorkspace ==
    /\ IF Len(projects) = 1
       THEN /\ last' = [op |-> "deleteWorkspace", id |-> project.id, refused |-> TRUE]
            /\ UNCHANGED <<projects, activeProjectId>>
       ELSE LET remaining == Filter(projects, LAMBDA p : p.id # project.id)
            IN  /\ projects' = remaining
                /\ activeProjectId' = remaining[1].id
                /\ last' = [op |-> "deleteWorkspace", id |-> project.id, refused |-> FALSE]
    /\ UNCHANGED nextId
    /\ UNCHANGED wsRest

(* Workspace "Rename" (lines 411-415); n is what the prompt returned, non-empty. *)
RenameWorkspace(n) ==
    /\ patchProject(LAMBDA p : [p EXCEPT !.name = n])
    /\ last' = [op |-> "renameWorkspace", id |-> project.id]
    /\ UNCHANGED <<activeProjectId, nextId>>
    /\ UNCHANGED wsRest

(***************************************************************************)
(* The editor and the "codeflow-collab" BroadcastChannel (lines 223-232,   *)
(* 410, 449-454, 501-512).  A BroadcastChannel delivers a message to every *)
(* other tab of the origin, in the order posted, and never to the poster:  *)
(* inbox holds what other tabs posted and this tab has not handled yet.    *)
(***************************************************************************)
(* Mutant of syncMessage: the two ids change places. *)
syncMessageSwapped(projectId, fileId, content) ==
    [type |-> "sync", projectId |-> fileId, fileId |-> projectId, content |-> content,
     actor |-> "remote"]

(* The message of line 511. *)
syncMessage(projectId, fileId, content) ==
    [type |-> "sync", projectId |-> projectId, fileId |-> fileId, content |-> content,
     actor |-> "remote"]

(* Mutant of applySync: the workspace test is lost. *)
applySyncAnyWorkspace(ps, msg) ==
    Map(ps, LAMBDA p : [p EXCEPT !.files =
        Map(@, LAMBDA f : IF f.id = msg.fileId THEN [f EXCEPT !.content = msg.content] ELSE f)])

(* The updater of line 228. *)
applySync(ps, msg) ==
    Map(ps, LAMBDA p : IF p.id # msg.projectId THEN p
                       ELSE [p EXCEPT !.files =
        Map(@, LAMBDA f : IF f.id = msg.fileId THEN [f EXCEPT !.content = msg.content] ELSE f)])

(* Login / Logout (line 410). *)
ToggleAuth ==
    /\ auth' = IF auth = "guest" THEN "user" ELSE "guest"
    /\ last' = [op |-> "toggleAuth"]
    /\ UNCHANGED <<projects, activeProjectId, activeFileId, openTabs, selectedIds,
                   moveTarget, nextId, handle, ret, inbox, posted, logs, uploads>>

(* A click on a listed file (lines 449-454). *)
OpenFile(id) ==
    /\ id \in listed(project.files, Null)
    /\ \E f \in Range(project.files) : f.id = id /\ f.kind = "file"
    /\ activeFileId' = id
    /\ openTabs' = IF id \in Range(openTabs) THEN openTabs ELSE Append(openTabs, id)
    /\ last' = [op |-> "openFile", id |-> id]
    /\ UNCHANGED <<auth, projects, activeProjectId, selectedIds, moveTarget, nextId,
                   handle, ret, inbox, posted, logs, uploads>>

(* The textarea's onChange (lines 504-512) with the new text v. *)
Edit(v) ==
    /\ activeFile # Null
    /\ patchProject(LAMBDA p : [p EXCEPT !.files =
           Map(@, LAMBDA f : IF f.id = activeFile THEN [f EXCEPT !.content = v] ELSE f)])
    /\ posted' = IF auth = "user"
                 THEN Append(posted, syncMessage(project.id, activeFile, v))
                 ELSE posted
    /\ last' = [op |-> "edit", content |-> v]
    /\ UNCHANGED <<auth, activeProjectId, activeFileId, openTabs, selectedIds, moveTarget,
                   nextId, handle, ret, inbox, logs, uploads>>

(* Another tab, running this page with auth = "user", edits the file fileId of
   its workspace projectId: its message arrives here. *)
PeerPost(projectId, fileId, content) ==
    /\ inbox' = Append(inbox, syncMessage(projectId, fileId, content))
    /\ last' = [op |-> "peerPost"]
    /\ UNCHANGED <<auth, projects, activeProjectId, activeFileId, openTabs, selectedIds,
                   moveTarget, nextId, handle, ret, posted, logs, uploads>>

(* Mutant of Receive: the handler posts the message it applied. *)
ReceiveEchoes ==
    /\ inbox # <<>>
    /\ LET msg == Head(inbox)
       IN  /\ projects' = applySync(projects, msg)
           /\ logs' = addLog(logs, "info", "Collab update received")
           /\ posted' = IF auth = "user" THEN Append(posted, msg) ELSE posted
           /\ last' = [op |-> "receive", msg |-> msg]
    /\ inbox' = Tail(inbox)
    /\ UNCHANGED <<auth, activeProjectId, activeFileId, openTabs, selectedIds, moveTarget,
                   nextId, handle, ret, uploads>>

(* onmessage (lines 225-230) for the oldest delivered message. *)
Receive ==
    /\ inbox # <<>>
    /\ LET msg == Head(inbox)
       IN  /\ projects' = IF msg.type # "sync" \/ msg.actor # "remote"
                          THEN projects
                          ELSE applySync(projects, msg)
           /\ logs' = IF msg.type # "sync" \/ msg.actor # "remote"
                      THEN logs
                      ELSE addLog(logs, "info", "Collab update received")
           /\ last' = [op |-> "receive", msg |-> msg]
    /\ inbox' = Tail(inbox)
    /\ UNCHANGED <<auth, activeProjectId, activeFileId, openTabs, selectedIds, moveTarget,
                   nextId, handle, ret, posted, uploads>>

(***************************************************************************)
(* Startup (lines 202-212): the state is read from localStorage when a     *)
(* previous authenticated session stored one, and is a single default      *)
(* workspace otherwise.  onlyFiles(p, keep) is workspace p after the user  *)
(* deleted every node outside keep.                                        *)
(***************************************************************************)
onlyFiles(p, keep) == [p EXCEPT !.files = Filter(@, LAMBDA f : f.id \in keep)]

InitRest ==
    /\ activeFileId = Null
    /\ openTabs = <<>>
    /\ selectedIds = {}
    /\ moveTarget = Null
    /\ handle = NoHandle
    /\ ret = [kind |-> "none"]
    /\ inbox = <<>>
    /\ posted = <<>>
    /\ logs = <<[level |-> "info", message |-> "!help for commands"]>>
    /\ uploads = <<>>
    /\ last = [op |-> "startup"]
    /\ steps = 0

(* Stored by a session that created a second workspace, kept src and
   CodeSpace.cs in the first and emptied the second. *)
InitTree ==
    /\ auth = "user"
    /\ projects = << onlyFiles(makeProject(1, "Main Workspace"), {2, 3}),
                     onlyFiles(makeProject(9, "Workspace 2"), {}) >>
    /\ activeProjectId = 1
    /\ nextId = 17
    /\ stored = snapshot(auth, projects, activeProjectId)
    /\ saveTimer = [set |-> TRUE, blob |-> stored]
    /\ timers = {stored}
    /\ InitRest

RenameInputs == {"src", "lib"}

NextTree ==
    \/ Handler(MaxTreeSteps, NewFile)
    \/ Handler(MaxTreeSteps, NewFolder)
    \/ Handler(MaxTreeSteps, \E id \in 1..MaxId, next \in RenameInputs : renameFile(id, next))
    \/ Handler(MaxTreeSteps, \E id \in 1..MaxId : deleteFile(id))
    \/ Handler(MaxTreeSteps, \E id \in 1..MaxId : moveFile(id))
    \/ Handler(MaxTreeSteps, \E id \in 1..MaxId : ToggleSelect(id))
    \/ Handler(MaxTreeSteps, MoveSelected)
    \/ Handler(MaxTreeSteps, DropIntoFolder)
    \/ Handler(MaxTreeSteps, BulkDelete)
    \/ Handler(MaxTreeSteps, \E pid \in 1..MaxId : SwitchWorkspace(pid))
    \/ Handler(MaxTreeSteps, Connect)
    \/ Handler(MaxTreeSteps, syncConnected)

SpecTree == InitTree /\ [][NextTree]_vars

(***************************************************************************)
(* Hierarchy properties.                                                   *)
(***************************************************************************)
(* The ids whose parent chain in files passes through a member of roots,
   and roots themselves: the subtrees below roots. *)
RECURSIVE subtreeFrom(_, _, _)
subtreeFrom(files, S, n) ==
    IF n = 0 THEN S
    ELSE subtreeFrom(files, S \cup { f.id : f \in { g \in Range(files) : g.parentId \in S } }, n - 1)

Subtree(files, roots) == subtreeFrom(files, roots, Len(files))

ParentOf(files, id) == { f.parentId : f \in { g \in Range(files) : g.id = id } }

(* C1: after deleteFile(id) or a bulk delete of a selection, the active
   workspace's hierarchy holds none of the deleted nodes, none of their
   transitive descendants, and no node whose parentId is a removed id. *)
C1_DeleteRemovesSubtree ==
    [][ last'.op \in {"deleteFile", "bulkDelete"} =>
            LET roots   == IF last'.op = "deleteFile" THEN {last'.id} ELSE last'.ids
                removed == Subtree(project.files, roots)
            IN  \A f \in Range(project'.files) : f.id \notin removed /\ f.parentId \notin removed
      ]_vars

(* C1, where descendants returns: the delete then removes the subtrees, so C1
   fails only on a hierarchy with a parent cycle (C2). *)
C1_HoldsWhenDescendantsReturns ==
    [][ (last'.op \in {"deleteFile", "bulkDelete"} /\ ~last'.threw) =>
            LET roots   == IF last'.op = "deleteFile" THEN {last'.id} ELSE last'.ids
                removed == Subtree(project.files, roots)
            IN  \A f \in Range(project'.files) : f.id \notin removed /\ f.parentId \notin removed
      ]_vars

(* The ids reached from id by following parentId links, one or more times. *)
RECURSIVE ancestorsFrom(_, _, _)
ancestorsFrom(files, S, n) ==
    IF n = 0 THEN S
    ELSE ancestorsFrom(files, S \cup UNION { ParentOf(files, a) : a \in S }, n - 1)

Ancestors(files, id) == ancestorsFrom(files, ParentOf(files, id), Len(files)) \ {Null}

(* C2: no node of any workspace is its own ancestor: following parentId links
   from a node never leads back to it. *)
C2_Forest ==
    \A i \in DOMAIN projects : \A f \in Range(projects[i].files) :
        f.id \notin Ancestors(projects[i].files, f.id)

(* C3: every parentId is null or the id of a folder of the same workspace. *)
C3_ParentIsFolder ==
    \A i \in DOMAIN projects : \A f \in Range(projects[i].files) :
        \/ f.parentId = Null
        \/ \E g \in Range(projects[i].files) : g.id = f.parentId /\ g.kind = "folder"

(* C4: a node moved (context-menu move, or drop of a selection) to itself or
   to one of its descendants keeps the parentId it had. *)
C4_MoveIntoOwnSubtreeRejected ==
    [][ last'.op \in {"moveFile", "dropIntoFolder"} =>
            LET moved == IF last'.op = "moveFile" THEN {last'.id} ELSE last'.ids
            IN  \A id \in moved \cap Ids(project.files) :
                    last'.target \in Subtree(project.files, {id})
                        => ParentOf(project'.files, id) = ParentOf(project.files, id)
      ]_vars

(***************************************************************************)
(* The SDK, called by a script while the user creates, switches and        *)
(* deletes workspaces.  A first start: nothing stored, one default         *)
(* workspace, made active by the startup effect.                           *)
(***************************************************************************)
MaxDbSteps == 6
MaxDocs == 2

InitDb ==
    /\ auth = "guest"
    /\ projects = << makeProject(1, "Main Workspace") >>
    /\ activeProjectId = 1
    /\ nextId = 9
    /\ stored = NoBlob
    /\ saveTimer = NoTimer
    /\ timers = {}
    /\ InitRest

CollectionNames == {"notes", "appData"}

(* The ids of the records of any collection of any workspace. *)
AllDocIds ==
    UNION { { d.id : d \in Range(docsOf(projects[i].collections, n)) }
            : i \in DOMAIN projects, n \in CollectionNames }

(* What a caller passes: fields of its own, a name, or an id of its own
   (here: one a record already has). *)
DataInputs == {[text |-> "hi"], [name |-> "cube"]} \cup { [id |-> i] : i \in AllDocIds }

(* The ids a caller names: those of existing records, and one no record has. *)
IdInputs == AllDocIds \cup {nextId}

handleDocs ==
    UNION { Range(docsOf(projects[i].collections, handle.name))
            : i \in { j \in DOMAIN projects : projects[j].id = handle.pid } }

NextDb ==
    \/ Handler(MaxDbSteps, CreateWorkspace)
    \/ Handler(MaxDbSteps, \E pid \in 1..MaxId : SwitchWorkspace(pid))
    \/ Handler(MaxDbSteps, DeleteWorkspace)
    \/ Handler(MaxDbSteps, \E name \in CollectionNames : dbCollection(name))
    \/ Handler(MaxDbSteps, getDocs)
    \/ Handler(MaxDbSteps, \E data \in DataInputs :
           Cardinality(handleDocs) < MaxDocs /\ nextId <= MaxId /\ addDoc(data))
    \/ Handler(MaxDbSteps, \E id \in IdInputs, data \in DataInputs : updateDoc(id, data))
    \/ Handler(MaxDbSteps, \E id \in IdInputs : deleteDoc(id))

SpecDb == InitDb /\ [][NextDb]_vars

(***************************************************************************)
(* SDK properties.                                                         *)
(***************************************************************************)
(* Collection name of the workspace pid in the workspace list ps. *)
docsIn(ps, pid, name) ==
    LET hits == Filter(ps, LAMBDA p : p.id = pid)
    IN  IF hits = <<>> THEN <<>> ELSE docsOf(hits[1].collections, name)

(* C5: after addDoc(name, fields) through the current window.db, the
   collection is the one before plus the new record as its last element, the
   record carries the caller's fields, and its id is the id of no record that
   was in the collection. *)
C5_AddDocAppendsFreshId ==
    [][ (last'.op = "addDoc" /\ last'.pid = project.id) =>
            LET before == docsOf(project.collections, last'.name)
                after  == docsOf(project'.collections, last'.name)
            IN  /\ Len(after) = Len(before) + 1
                /\ SubSeq(after, 1, Len(before)) = before
                /\ \A k \in DOMAIN last'.data : after[Len(after)][k] = last'.data[k]
                /\ after[Len(after)].id \notin { d.id : d \in Range(before) }
      ]_vars

(* C6: addDoc returns the record it appended. *)
C6_AddDocReturnsRecord ==
    (last.op = "addDoc" /\ last.pid = project.id) =>
        /\ ret.kind = "doc"
        /\ ret.doc = docsOf(project.collections, last.name)[Len(docsOf(project.collections, last.name))]

(* C7: updateDoc and deleteDoc with an id that no record of the collection
   has leave the collection as it was (length, records, order), and every
   other collection of every workspace too. *)
C7_UnknownIdNoChange ==
    [][ ( /\ last'.op \in {"updateDoc", "deleteDoc"}
          /\ last'.id \notin { d.id : d \in Range(docsIn(projects, last'.pid, last'.name)) } )
        => \A pid \in { projects[i].id : i \in DOMAIN projects }, n \in CollectionNames :
               docsIn(projects', pid, n) = docsIn(projects, pid, n)
      ]_vars

(* The case of C7: an update with an unknown id of a collection that has records. *)
C7_Witness ==
    /\ last.op = "updateDoc"
    /\ docsIn(projects, last.pid, last.name) # <<>>
    /\ last.id \notin { d.id : d \in Range(docsIn(projects, last.pid, last.name)) }

(* C8: an SDK write changes the workspace that is active when it is called
   and no other, and getDocs returns the records of the active workspace. *)
C8_SdkActsOnActiveWorkspace ==
    [][ /\ last'.op \in {"addDoc", "updateDoc", "deleteDoc"} =>
            \A i \in DOMAIN projects : projects[i].id # project.id => projects'[i] = projects[i]
        /\ last'.op = "getDocs" => ret'.docs = docsOf(project.collections, last'.name)
      ]_vars

(***************************************************************************)
(* Editing and cross-tab sync.  Stored by a session that created a second  *)
(* workspace and kept src, CodeSpace.cs and main.js in the first and       *)
(* index.html in the second.                                               *)
(***************************************************************************)
MaxSyncSteps == 5
MaxInbox == 2

InitSync ==
    /\ auth = "user"
    /\ projects = << onlyFiles(makeProject(1, "Main Workspace"), {2, 3, 8}),
                     onlyFiles(makeProject(9, "Workspace 2"), {14}) >>
    /\ activeProjectId = 1
    /\ nextId = 17
    /\ stored = snapshot(auth, projects, activeProjectId)
    /\ saveTimer = [set |-> TRUE, blob |-> stored]
    /\ timers = {stored}
    /\ InitRest

EditInputs == {"var x = 1", ""}
PeerContents == {"// from a peer"}

(* The workspaces and files a peer's message names: those known here, and an
   id nothing here has. *)
PeerProjectIds == { projects[i].id : i \in DOMAIN projects } \cup {nextId}
PeerFileIds == UNION { Ids(projects[i].files) : i \in DOMAIN projects } \cup {nextId}

NextSync ==
    \/ Handler(MaxSyncSteps, ToggleAuth)
    \/ Handler(MaxSyncSteps, \E pid \in 1..MaxId : SwitchWorkspace(pid))
    \/ Handler(MaxSyncSteps, \E id \in 1..MaxId : OpenFile(id))
    \/ Handler(MaxSyncSteps, \E v \in EditInputs : Edit(v))
    \/ Handler(MaxSyncSteps, \E pid \in PeerProjectIds, fid \in PeerFileIds, c \in PeerContents :
           Len(inbox) < MaxInbox /\ PeerPost(pid, fid, c))
    \/ Handler(MaxSyncSteps, Receive)

SpecSync == InitSync /\ [][NextSync]_vars

(***************************************************************************)
(* Sync properties.                                                        *)
(***************************************************************************)
(* C9 as stated: every edit in the editor posts one sync message with the
   active workspace's id, the edited file's id and the new content. *)
C9_EveryEditPublishes ==
    [][ last'.op = "edit" =>
            posted' = Append(posted, syncMessage(project.id, activeFile, last'.content))
      ]_vars

(* C9, amended: an edit made while auth = "user" posts exactly that one
   message; an edit made as a guest posts nothing. *)
C9_EditPublishesWhenLoggedIn ==
    [][ last'.op = "edit" =>
            IF auth = "user"
            THEN posted' = Append(posted,
                     [type |-> "sync", projectId |-> project.id, fileId |-> activeFile,
                      content |-> last'.content, actor |-> "remote"])
            ELSE posted' = posted
      ]_vars

(* The case of C9: a logged-in edit, made after a switch of workspace. *)
C9_Witness ==
    /\ last.op = "edit"
    /\ auth = "user"
    /\ project.id # projects[1].id
    /\ posted # <<>>

(* C10: handling a delivered message gives the file msg.fileId of the
   workspace msg.projectId the content msg.content and changes nothing else:
   no other file, no other workspace, and nothing at all when the workspace or
   the file is unknown.  No step other than a local edit or the handling of a
   message changes a workspace, so the content stays that of the last message
   applied until the next local edit. *)
C10_ReceiveSetsOnlyThatFile ==
    [][ /\ last'.op \notin {"edit", "receive"} => projects' = projects
        /\ last'.op = "receive" =>
            LET msg == Head(inbox)
            IN  /\ DOMAIN projects' = DOMAIN projects
                /\ \A i \in DOMAIN projects :
                       /\ [projects'[i] EXCEPT !.files = <<>>] = [projects[i] EXCEPT !.files = <<>>]
                       /\ DOMAIN projects'[i].files = DOMAIN projects[i].files
                       /\ \A j \in DOMAIN projects[i].files :
                              projects'[i].files[j] =
                                  IF projects[i].id = msg.projectId
                                         /\ projects[i].files[j].id = msg.fileId
                                  THEN [projects[i].files[j] EXCEPT !.content = msg.content]
                                  ELSE projects[i].files[j]
      ]_vars

(* The case of C10: a message for a file of a workspace that is not the active
   one has been applied over a local edit of that file. *)
C10_Witness ==
    /\ last.op = "receive"
    /\ last.msg.projectId # project.id
    /\ posted # <<>>
    /\ \E i \in DOMAIN projects : \E f \in Range(projects[i].files) :
           /\ projects[i].id = last.msg.projectId
           /\ f.id = last.msg.fileId
           /\ f.content = last.msg.content
           /\ \E m \in Range(posted) : m.fileId = f.id /\ m.content # f.content

(***************************************************************************)
(* Persistence: the timer's callback (line 218) and a reload of the page   *)
(* (lines 167-200, 202-212), in a session that starts with nothing stored. *)
(***************************************************************************)
MaxSaveSteps == 6

(* Mutant of FireSave: the callback runs and writes nothing. *)
FireSaveLost ==
    /\ \E blob \in timers :
           /\ timers' = timers \ {blob}
           /\ saveTimer' = IF saveTimer # NoTimer /\ saveTimer.blob = blob THEN NoTimer
                           ELSE saveTimer
    /\ last' = [op |-> "fireSave"]
    /\ UNCHANGED <<auth, projects, activeProjectId, activeFileId, openTabs, selectedIds,
                   moveTarget, nextId, handle, ret, inbox, posted, logs, stored, uploads,
                   steps>>

(* The callback of a pending timeout: localStorage.setItem of what its closure
   holds.  It is no handler of the page: it sets no state and causes no
   render. *)
FireSave ==
    /\ \E blob \in timers :
           /\ stored' = blob
           /\ timers' = timers \ {blob}
           /\ saveTimer' = IF saveTimer # NoTimer /\ saveTimer.blob = blob THEN NoTimer
                           ELSE saveTimer
    /\ last' = [op |-> "fireSave"]
    /\ UNCHANGED <<auth, projects, activeProjectId, activeFileId, openTabs, selectedIds,
                   moveTarget, nextId, handle, ret, inbox, posted, logs, uploads, steps>>

(* What the startup effect sets from the parsed blob. *)
loadedProjects(blob, u) ==
    IF Len(blob.projects) # 0 THEN blob.projects ELSE << makeProject(u, "Main Workspace") >>

loadedActiveProjectId(blob) ==
    IF blob.activeProjectId # Null THEN blob.activeProjectId
    ELSE IF Len(blob.projects) # 0 THEN blob.projects[1].id ELSE Null

(* The tab is closed (the unmount's cleanup clears the timer) and the page is
   opened again: the useState initial values, then the startup effect, then
   the save effect of the render the startup effect causes.  The ids of the
   useState initialiser's makeProject() are drawn only where that workspace
   is kept: when it is replaced by the stored list, nothing ever holds them. *)
usesInitialProject == stored = NoBlob \/ Len(stored.projects) = 0

Reload ==
    /\ usesInitialProject => nextId + 7 <= MaxId
    /\ nextId' = IF usesInitialProject THEN nextId + 8 ELSE nextId
    /\ IF stored # NoBlob
       THEN /\ auth' = stored.auth
            /\ projects' = loadedProjects(stored, nextId)
            /\ activeProjectId' = loadedActiveProjectId(stored)
       ELSE /\ auth' = "guest"
            /\ projects' = << makeProject(nextId, "Main Workspace") >>
            /\ activeProjectId' = nextId
    /\ saveTimer' = IF auth' = "user"
                    THEN [set |-> TRUE, blob |-> snapshot(auth', projects', activeProjectId')]
                    ELSE NoTimer
    /\ timers' = IF auth' = "user" THEN {saveTimer'.blob} ELSE {}
    /\ activeFileId' = Null
    /\ openTabs' = <<>>
    /\ selectedIds' = {}
    /\ moveTarget' = Null
    /\ handle' = NoHandle
    /\ ret' = [kind |-> "none"]
    /\ inbox' = <<>>
    /\ logs' = <<[level |-> "info", message |-> "!help for commands"]>>
    /\ uploads' = <<>>
    /\ last' = [op |-> "reload"]
    /\ UNCHANGED <<stored, posted>>

WorkspaceNames == {"Site"}

NextSave ==
    \/ Handler(MaxSaveSteps, ToggleAuth)
    \/ Handler(MaxSaveSteps, CreateWorkspace)
    \/ Handler(MaxSaveSteps, \E pid \in 1..MaxId : SwitchWorkspace(pid))
    \/ Handler(MaxSaveSteps, \E n \in WorkspaceNames : RenameWorkspace(n))
    \/ Handler(MaxSaveSteps, DeleteWorkspace)
    \/ Handler(MaxSaveSteps, NewFile)
    \/ Budget(MaxSaveSteps) /\ Reload
    \/ FireSave

SpecSave == InitDb /\ [][NextSave]_vars

(* The browser runs a timer that stays set. *)
SpecSaveFair == SpecSave /\ WF_vars(FireSave)

(***************************************************************************)
(* Persistence properties.                                                 *)
(***************************************************************************)
(* The value of { auth, projects, activeProjectId } in the current state. *)
current == snapshot(auth, projects, activeProjectId)

(* C11: localStorage is written only while auth = "user"; a write is pending
   only while auth = "user"; and Logout leaves no write pending, so the one
   that was pending never fires. *)
C11_NoWriteAsGuest ==
    [][ /\ stored' # stored => auth = "user" /\ auth' = "user"
        /\ auth' = "guest" => timers' = {}
        /\ (last'.op = "toggleAuth" /\ auth = "user") => timers' = {} /\ stored' = stored
      ]_vars

(* The case of C11: Logout with a write pending that would have replaced an
   older stored blob; the stored blob is still the older one. *)
C11_Witness ==
    /\ last.op = "toggleAuth"
    /\ auth = "guest"
    /\ stored # NoBlob
    /\ stored.projects # projects
    /\ timers = {}

(* C12 as stated: at most one write is pending; every change of auth, of the
   workspace list or of the active workspace id leaves exactly one write
   pending, that of the new values; a write that fires stores the current
   values. *)
C12_EveryChangeReschedules ==
    [][ /\ Cardinality(timers') <= 1
        /\ <<auth', projects', activeProjectId'>> # <<auth, projects, activeProjectId>>
               => timers' = {snapshot(auth', projects', activeProjectId')}
        /\ last'.op = "fireSave" => stored' = current
      ]_vars

(* C12, amended: a change that leaves auth = "user" cancels the pending write
   and schedules one of the new values; a change that leaves auth = "guest"
   (Logout, or any change made as a guest) leaves none pending. *)
C12_ChangeReschedulesWhenLoggedIn ==
    [][ /\ Cardinality(timers') <= 1
        /\ <<auth', projects', activeProjectId'>> # <<auth, projects, activeProjectId>>
               => timers' = IF auth' = "user"
                            THEN {[has |-> TRUE, auth |-> auth', projects |-> projects',
                                   activeProjectId |-> activeProjectId']}
                            ELSE {}
        /\ last'.op = "fireSave" =>
               stored' = [has |-> TRUE, auth |-> auth, projects |-> projects,
                          activeProjectId |-> activeProjectId]
      ]_vars

(* The case of C12: nothing was ever written, so the write scheduled before
   this logged-in "New file" was still pending and has been superseded. *)
C12_Witness ==
    /\ last.op = "newFile"
    /\ auth = "user"
    /\ stored = NoBlob
    /\ Len(projects) = 2
    /\ timers = {current}

(* C13: if the session stays authenticated from some point on (the handlers
   stop, or go on without a Logout), then from some point on the stored blob
   is the current auth, projects and activeProjectId.  Checked under
   SpecSaveFair: a timeout that stays pending fires. *)
C13_EventuallyStored == <>[](auth = "user") => <>[](stored = current)

(* The case of C13: a write fired in a logged-in session with two workspaces
   and left nothing pending. *)
C13_Witness ==
    /\ last.op = "fireSave"
    /\ auth = "user"
    /\ Len(projects) = 2
    /\ timers = {}
    /\ stored = current

(***************************************************************************)
(* The explorer and the preview of one workspace.  Stored by a session     *)
(* that kept src, CodeSpace.cs, index.html, styles.css and main.js of the  *)
(* default workspace.                                                      *)
(***************************************************************************)
MaxFileSteps == 3

InitFiles ==
    /\ auth = "user"
    /\ projects = << onlyFiles(makeProject(1, "Main Workspace"), {2, 3, 6, 7, 8}) >>
    /\ activeProjectId = 1
    /\ nextId = 9
    /\ stored = snapshot(auth, projects, activeProjectId)
    /\ saveTimer = [set |-> TRUE, blob |-> stored]
    /\ timers = {stored}
    /\ InitRest

(* What the Rename prompt returns. *)
FileNames == {"Zed.html", "app.js"}

NextFiles ==
    \/ Handler(MaxFileSteps, NewFile)
    \/ Handler(MaxFileSteps, NewFolder)
    \/ Handler(MaxFileSteps, \E id \in 1..MaxId, next \in FileNames : renameFile(id, next))
    \/ Handler(MaxFileSteps, \E id \in 1..MaxId : moveFile(id))
    \/ Handler(MaxFileSteps, \E id \in 1..MaxId : deleteFile(id))

SpecFiles == InitFiles /\ [][NextFiles]_vars

(* What the search box holds (line 172). *)
SearchInputs == {"", "S", ".js"}

(* C14: for every search term, in listTree(null) of the active workspace:
   two nodes of one parent stand with the folder before the file and, when of
   one kind, in the order of their names; every node passing the search whose
   parent is the root or a listed folder is listed, once; and the listed
   nodes below a folder are exactly the entries that follow it, with nothing
   in between.  (listTree reads project.files and search and sets no state:
   its sort acts on the array filter returned.) *)
C14_ListTreeOrdered ==
    \A term \in SearchInputs :
        \A out \in {listTree(project.files, term, Null)} :
        \A shown \in {Range(filtered(project.files, term))} :
            /\ \A i, j \in DOMAIN out : (i < j /\ out[i].parentId = out[j].parentId) =>
                   /\ ~(out[i].kind = "file" /\ out[j].kind = "folder")
                   /\ out[i].kind = out[j].kind => localeCompare(out[i].name, out[j].name) <= 0
            /\ \A i, j \in DOMAIN out : i # j => out[i].id # out[j].id
            /\ \A f \in shown : f.parentId = Null => f \in Range(out)
            /\ \A i \in DOMAIN out : out[i].kind = "folder" =>
                   LET under == Subtree(project.files, {out[i].id}) \ {out[i].id}
                       below == { j \in DOMAIN out : out[j].id \in under }
                   IN  /\ below = (i + 1)..(i + Cardinality(below))
                       /\ \A f \in shown : f.parentId = out[i].id => f \in Range(out)

(* The case of C14: the listing is not in the order of project.files: a new
   folder stands before src, src is followed by its child, and index.html
   stands before the file renamed Zed.html. *)
C14_Witness ==
    LET out == listTree(project.files, "", Null)
    IN  /\ \E i \in DOMAIN out : i > 1 /\ i < Len(out) /\ out[i].name = "src"
              /\ out[i - 1].kind = "folder" /\ out[i + 1].parentId = out[i].id
        /\ \E i, j \in DOMAIN out : i < j /\ out[i].name = "index.html" /\ out[j].name = "Zed.html"
              /\ out[j].kind = "file" /\ out[i].parentId = out[j].parentId

(***************************************************************************)
(* The terminal (lines 268-284), with the editor: cmd is termInput.trim(), *)
(* non-empty.  Each addLog is a functional update of logs; "!clear" sets   *)
(* logs to [] after the entry of the command was queued.                   *)
(***************************************************************************)
MaxTermSteps == 4

RECURSIVE join(_, _)
join(names, sep) ==
    IF names = <<>> THEN ""
    ELSE IF Len(names) = 1 THEN names[1]
    ELSE names[1] \o sep \o join(Tail(names), sep)

(* f.content.replaceAll("var ", "const ") (line 277) *)
fixCode(content) == replaceAll(content, "var ", "const ")

runTerminal(cmd) ==
    /\ LET entered == addLog(logs, "info", "> " \o cmd)
       IN  IF cmd = "!help"
           THEN /\ logs' = addLog(entered, "success", "!run !fix code !list !clear !help")
                /\ UNCHANGED projects
           ELSE IF cmd = "!run"
           THEN /\ logs' = addLog(entered, "success", "Preview executed.")
                /\ UNCHANGED projects
           ELSE IF cmd = "!fix code"
           THEN IF activeFile = Null
                THEN /\ logs' = addLog(entered, "error", "No active file.")
                     /\ UNCHANGED projects
                ELSE /\ patchProject(LAMBDA p : [p EXCEPT !.files =
                            Map(@, LAMBDA f : IF f.id = activeFile
                                              THEN [f EXCEPT !.content = fixCode(@)]
                                              ELSE f)])
                     /\ logs' = addLog(entered, "success", "Applied quick fix: var -> const")
           ELSE IF cmd = "!list"
           THEN /\ logs' = addLog(entered, "info",
                               join(Map(project.files, LAMBDA f : f.name), ", "))
                /\ UNCHANGED projects
           ELSE IF cmd = "!clear"
           THEN /\ logs' = <<>>
                /\ UNCHANGED projects
           ELSE /\ logs' = addLog(entered, "error", "Unknown command")
                /\ UNCHANGED projects
    /\ last' = [op |-> "runTerminal", cmd |-> cmd, file |-> activeFile]
    /\ UNCHANGED <<auth, activeProjectId, activeFileId, openTabs, selectedIds, moveTarget,
                   nextId, handle, ret, inbox, posted, uploads>>

Commands == {"!help", "!run", "!fix code", "!list", "!clear", "make"}

(* What the user types into the editor. *)
TermContents == {"var x = 1", "var myvar = 1"}

NextTerm ==
    \/ Handler(MaxTermSteps, \E pid \in 1..MaxId : SwitchWorkspace(pid))
    \/ Handler(MaxTermSteps, \E id \in 1..MaxId : OpenFile(id))
    \/ Handler(MaxTermSteps, \E v \in TermContents : Edit(v))
    \/ Handler(MaxTermSteps, \E cmd \in Commands : runTerminal(cmd))

SpecTerm == InitSync /\ [][NextTerm]_vars

(***************************************************************************)
(* Terminal properties.                                                    *)
(***************************************************************************)
IdentChars ==
    { charAt(Upper, i) : i \in 1..Len(Upper) } \cup { charAt(Lower, i) : i \in 1..Len(Lower) }
        \cup {"0", "1", "2", "3", "4", "5", "6", "7", "8", "9", "_", "$"}

(* s with every keyword var (the word, not part of a longer identifier)
   replaced by const, from position i on. *)
RECURSIVE keywordFixFrom(_, _)
keywordFixFrom(s, i) ==
    IF i > Len(s) THEN ""
    ELSE IF /\ i + 2 <= Len(s)
            /\ SubSeq(s, i, i + 2) = "var"
            /\ (i = 1 \/ charAt(s, i - 1) \notin IdentChars)
            /\ (i + 3 > Len(s) \/ charAt(s, i + 3) \notin IdentChars)
         THEN "const" \o keywordFixFrom(s, i + 3)
         ELSE charAt(s, i) \o keywordFixFrom(s, i + 1)

(* The content of the file id of the workspace pid in ps. *)
contentIn(ps, pid, id) ==
    LET hits == Filter(FlatSeq(Map(Filter(ps, LAMBDA p : p.id = pid), LAMBDA p : p.files)),
                       LAMBDA f : f.id = id)
    IN  hits[1].content

(* What "!fix code" leaves alone: every file but the active one, and the
   fields of the active one other than its content; and, with no active file,
   everything, with an error entry as the last of logs. *)
fixCodeTouchesOnlyActiveFile ==
    /\ DOMAIN projects' = DOMAIN projects
    /\ \A i \in DOMAIN projects :
           /\ [projects'[i] EXCEPT !.files = <<>>] = [projects[i] EXCEPT !.files = <<>>]
           /\ DOMAIN projects'[i].files = DOMAIN projects[i].files
           /\ \A j \in DOMAIN projects[i].files :
                  IF projects[i].id = project.id /\ projects[i].files[j].id = activeFile
                  THEN [projects'[i].files[j] EXCEPT !.content = ""]
                           = [projects[i].files[j] EXCEPT !.content = ""]
                  ELSE projects'[i].files[j] = projects[i].files[j]
    /\ activeFile = Null =>
           /\ projects' = projects
           /\ Len(logs') = Len(logs) + 2
           /\ logs'[Len(logs')] = [level |-> "error", message |-> "No active file."]

(* C15 as stated: after "!fix code" the active file's content is the previous
   content with every keyword var replaced by const, nothing else of any
   workspace changes, and with no active file nothing changes and an error
   entry is logged. *)
C15_FixCodeReplacesKeyword ==
    [][ (last'.op = "runTerminal" /\ last'.cmd = "!fix code") =>
            /\ fixCodeTouchesOnlyActiveFile
            /\ activeFile # Null =>
                   contentIn(projects', project.id, activeFile)
                       = keywordFixFrom(contentIn(projects, project.id, activeFile), 1)
      ]_vars

(* What "!fix code" does to the active file: every occurrence of the four
   characters "var " (var and a blank), taken from the left, becomes
   "const ", inside an identifier too. *)
C15_FixCodeReplacesVarBlank ==
    [][ (last'.op = "runTerminal" /\ last'.cmd = "!fix code") =>
            /\ fixCodeTouchesOnlyActiveFile
            /\ activeFile # Null =>
                   contentIn(projects', project.id, activeFile)
                       = replaceAll(contentIn(projects, project.id, activeFile), "var ", "const ")
      ]_vars

(***************************************************************************)
(* Preview properties.                                                     *)
(***************************************************************************)
(* The content of the first node of kind file, in the order of
   project.files, whose name ends in ext; "" when there is none. *)
firstFileContent(files, ext) ==
    LET hits == Filter(files, LAMBDA f : f.kind = "file" /\ endsWith(f.name, ext))
    IN  IF hits = <<>> THEN "" ELSE hits[1].content

(* C16: after any sequence of New file, New folder, rename, move and delete,
   the preview document embeds the content of the first file ending in
   .html, of the first ending in .css and of the first ending in .js, each
   section being empty when the active workspace has no such file. *)
C16_PreviewEmbedsFirstFiles ==
    preview = previewDocument(firstFileContent(project.files, ".html"),
                              firstFileContent(project.files, ".css"),
                              firstFileContent(project.files, ".js"))

(***************************************************************************)
(* Termination of descendants.                                             *)
(***************************************************************************)
(* C17: in every hierarchy the handlers can produce, descendants returns for
   every node, and so every context-menu delete and every bulk delete runs to
   its end. *)
C17_DeleteCompletes ==
    [][ /\ \A id \in Ids(project'.files) : ~Diverges(project'.files, id)
        /\ last'.op \in {"deleteFile", "bulkDelete"} => ~last'.threw
      ]_vars

(* The part of C17 that holds: a node the explorer lists is in no parent
   cycle, so the context-menu delete always completes. *)
C17_ContextMenuDeleteCompletes ==
    [][ last'.op = "deleteFile" => ~last'.threw ]_vars

(***************************************************************************)
(* Tabs and deletes, in the session of InitSync.                           *)
(***************************************************************************)
MaxTabSteps == 4

NextTabs ==
    \/ Handler(MaxTabSteps, \E id \in 1..MaxId : OpenFile(id))
    \/ Handler(MaxTabSteps, \E id \in 1..MaxId : deleteFile(id))
    \/ Handler(MaxTabSteps, \E id \in 1..MaxId : ToggleSelect(id))
    \/ Handler(MaxTabSteps, BulkDelete)
    \/ Handler(MaxTabSteps, \E pid \in 1..MaxId : SwitchWorkspace(pid))

SpecTabs == InitSync /\ [][NextTabs]_vars

(* C18: a context-menu delete or a bulk delete leaves in openTabs no id of a
   node it removed from the active workspace, and activeFileId is no such
   id. *)
C18_NoTabOnRemovedNode ==
    [][ last'.op \in {"deleteFile", "bulkDelete"} =>
            LET removed == Ids(project.files) \ Ids(project'.files)
            IN  /\ Range(openTabs') \cap removed = {}
                /\ activeFileId' \notin removed
      ]_vars

(* The part of C18 that holds: the context-menu delete (lines 302-307). *)
C18_ContextMenuDeleteClosesTabs ==
    [][ last'.op = "deleteFile" =>
            LET removed == Ids(project.files) \ Ids(project'.files)
            IN  /\ Range(openTabs') \cap removed = {}
                /\ activeFileId' \notin removed
      ]_vars

(***************************************************************************)
(* Workspace list properties.                                              *)
(***************************************************************************)
activeIsListed ==
    /\ Len(projects) >= 1
    /\ activeProjectId \in { projects[i].id : i \in DOMAIN projects }

(* C19: at the end of startup and after every handler (workspace create,
   switch, rename and delete among them, and a reload from what was stored)
   the workspace list is not empty and activeProjectId is the id of one of
   its workspaces; Delete with one workspace changes neither. *)
C19_ActiveWorkspaceListed ==
    /\ activeIsListed
    /\ [][ /\ activeIsListed'
           /\ (last'.op = "deleteWorkspace" /\ Len(projects) = 1) =>
                  projects' = projects /\ activeProjectId' = activeProjectId
         ]_vars

(* The case of C19: the first workspace was deleted while active, and the
   workspace created after it is the one left, and active. *)
C19_Witness ==
    /\ last.op = "deleteWorkspace"
    /\ ~last.refused
    /\ Len(projects) = 1
    /\ projects[1].id # 1
    /\ activeProjectId = projects[1].id

(***************************************************************************)
(* Publishing.  Every tab runs this page: what holds for the messages this *)
(* tab posts holds for each tab's, and so for their sum on the channel.    *)
(***************************************************************************)
(* C20: handling a delivered message posts nothing, and so does every
   handler but the editor's: the messages this tab has posted grow by one
   with each edit made while auth = "user" and with nothing else. *)
C20_OnlyLocalEditsPublish ==
    [][ /\ last'.op = "receive" => posted' = posted
        /\ Len(posted') = Len(posted) + (IF last'.op = "edit" /\ auth = "user" THEN 1 ELSE 0)
      ]_vars

(* The case of C20: a logged-in tab that posted one edit of a file of its
   active workspace has applied a peer's message for that same file. *)
C20_Witness ==
    /\ last.op = "receive"
    /\ auth = "user"
    /\ Len(posted) = 1
    /\ posted[1].projectId = last.msg.projectId
    /\ posted[1].fileId = last.msg.fileId
    /\ last.msg.projectId = project.id

(***************************************************************************)
(* Upload (lines 532-536).  The onChange handler starts file.text() and    *)
(* returns; the promise's callback runs later, in any order with other     *)
(* handlers and other reads, and calls the patchProject of the render in   *)
(* which the file was chosen: its updater tests the project.id of that     *)
(* render against the workspaces of the time it runs.  uid() runs inside   *)
(* the updater, for the workspace it matches.                              *)
(***************************************************************************)
MaxUploadSteps == 5
MaxUploads == 2

removeAt(s, i) == SubSeq(s, 1, i - 1) \o SubSeq(s, i + 1, Len(s))

(* The onChange of the file input with a file of this name and text. *)
StartUpload(name, text) ==
    /\ uploads' = Append(uploads, [pid |-> project.id, name |-> name, text |-> text])
    /\ last' = [op |-> "startUpload", pid |-> project.id]
    /\ UNCHANGED <<auth, projects, activeProjectId, activeFileId, openTabs, selectedIds,
                   moveTarget, nextId, handle, ret, inbox, posted, logs>>

(* Mutant of CompleteUpload: the callback patches the workspace that is
   active when it runs. *)
CompleteUploadIntoActive(i) ==
    /\ i \in DOMAIN uploads
    /\ nextId <= MaxId
    /\ patchProjectOf(project.id, LAMBDA p : [p EXCEPT !.files = Append(@,
           FileItem(nextId, uploads[i].name, "file", uploads[i].text, Null))])
    /\ nextId' = nextId + 1
    /\ uploads' = removeAt(uploads, i)
    /\ last' = [op |-> "upload", pid |-> uploads[i].pid, id |-> nextId,
                name |-> uploads[i].name, content |-> uploads[i].text]
    /\ UNCHANGED <<auth, activeProjectId, activeFileId, openTabs, selectedIds, moveTarget,
                   handle, ret, inbox, posted, logs>>

(* The callback of file.text().then for the i-th pending read. *)
CompleteUpload(i) ==
    /\ i \in DOMAIN uploads
    /\ nextId <= MaxId
    /\ patchProjectOf(uploads[i].pid, LAMBDA p : [p EXCEPT !.files = Append(@,
           FileItem(nextId, uploads[i].name, "file", uploads[i].text, Null))])
    /\ nextId' = IF \E k \in DOMAIN projects : projects[k].id = uploads[i].pid
                 THEN nextId + 1 ELSE nextId
    /\ uploads' = removeAt(uploads, i)
    /\ last' = [op |-> "upload", pid |-> uploads[i].pid, id |-> nextId,
                name |-> uploads[i].name, content |-> uploads[i].text]
    /\ UNCHANGED <<auth, activeProjectId, activeFileId, openTabs, selectedIds, moveTarget,
                   handle, ret, inbox, posted, logs>>

(* The files a user picks. *)
UploadNames == {"notes.txt"}
UploadTexts == {"hello"}

NextUpload ==
    \/ Handler(MaxUploadSteps, \E name \in UploadNames, text \in UploadTexts :
           Len(uploads) < MaxUploads /\ StartUpload(name, text))
    \/ Handler(MaxUploadSteps, \E i \in 1..MaxUploads : CompleteUpload(i))
    \/ Handler(MaxUploadSteps, \E pid \in 1..MaxId : SwitchWorkspace(pid))
    \/ Handler(MaxUploadSteps, DeleteWorkspace)
    \/ Handler(MaxUploadSteps, NewFile)

SpecUpload == InitSync /\ [][NextUpload]_vars

(* C21: choosing a file changes no workspace and notes the workspace that is
   active; when its read completes, that workspace, if it is still listed,
   gets one more node at the end of its files (kind file, at the root, with
   the file's name and text and an id no node had) and is otherwise as it
   was, and every other workspace is as it was, whichever workspace is active
   by then; if it is no longer listed no workspace changes. *)
C21_UploadIntoStartingWorkspace ==
    [][ /\ last'.op = "startUpload" =>
               /\ projects' = projects
               /\ uploads'[Len(uploads')].pid = project.id
        /\ last'.op = "upload" =>
               /\ \E i \in DOMAIN uploads :
                      /\ uploads[i] = [pid |-> last'.pid, name |-> last'.name,
                                       text |-> last'.content]
                      /\ uploads' = SubSeq(uploads, 1, i - 1) \o SubSeq(uploads, i + 1, Len(uploads))
               /\ DOMAIN projects' = DOMAIN projects
               /\ \A k \in DOMAIN projects :
                      IF projects[k].id = last'.pid
                      THEN /\ [projects'[k] EXCEPT !.files = <<>>]
                                  = [projects[k] EXCEPT !.files = <<>>]
                           /\ Len(projects'[k].files) = Len(projects[k].files) + 1
                           /\ SubSeq(projects'[k].files, 1, Len(projects[k].files))
                                  = projects[k].files
                           /\ LET node == projects'[k].files[Len(projects'[k].files)]
                              IN  /\ node.kind = "file"
                                  /\ node.parentId = Null
                                  /\ node.name = last'.name
                                  /\ node.content = last'.content
                                  /\ node.id \notin
                                         UNION { Ids(projects[j].files) : j \in DOMAIN projects }
                      ELSE projects'[k] = projects[k]
      ]_vars

(* The case of C21: a read completed after a switch of workspace, and the
   file is in the workspace left behind, not in the active one. *)
C21_Witness ==
    /\ last.op = "upload"
    /\ last.pid # project.id
    /\ \E k \in DOMAIN projects :
           /\ projects[k].id = last.pid
           /\ last.id \in Ids(projects[k].files)
    /\ last.id \notin Ids(project.files)

====
